---------------------------- MODULE Spec2Model ----------------------------
(***************************************************************************)
(* ChatPanel: the connection supervisor, the message reconciler and the    *)
(* outbound send pipeline of the per-property chat panel, as one state     *)
(* machine over the React component's state, its refs, the sockets it has  *)
(* created, their reconnect timers and the history fetches in flight.      *)
(*                                                                         *)
(* Every action is one task of the browser's event loop: a socket event,   *)
(* a timer callback, a promise continuation or a user/parent event,        *)
(* together with the re-render and the effects that React runs after it.   *)
(***************************************************************************)
EXTENDS Integers, Sequences, FiniteSets, TLC

\* ------------------------------------------------------------ bounds
MaxSockets == 2      \* socket objects alive at the same time
MaxMsgs == 3         \* transcript length
MaxClock == 2        \* values of Date.now() that are distinguished
MaxAttempts == 2     \* reconnect attempts counted under Spec
MaxBackoff == 18     \* reconnect attempts counted under SpecB
MaxArrived == 3      \* chat messages delivered after a seed under SpecR
MaxFailures == 1     \* reconnect attempts counted under SpecThrow
MaxSent == 1         \* transcript length under SpecThrow

\* ------------------------------------------------------------ constants
MaxTextLen == 1000   \* longest message text accepted by send
BaseMs == 300        \* reconnect delay per attempt
CapMs == 5000        \* reconnect delay cap
UserId == 123        \* id of the logged-in user (auth.user.id)
OtherId == 999       \* id of another participant

Props == {1, 2}      \* property ids the panel is shown for
Slots == 1..MaxSockets

VARIABLES
  lifecycle,             \* "init" | "mounted" | "unmounted"
  propertyId,            \* the propertyId prop of the last render
  stored,                \* whether local storage holds a token
  token,                 \* getToken() as read by the last render
  connState,             \* React state connState
  error,                 \* React state error ("" is null)
  messages,              \* React state messages: the transcript
  wsRef,                 \* wsRef.current: a slot, or 0 for null
  reconnectAttemptsRef,  \* reconnectAttemptsRef.current
  connectingRef,         \* connectingRef.current
  sockets,               \* the WebSocket objects created, by slot
  task,                  \* the socket whose error event is being dispatched, or 0
  renderDue,             \* a render that will read another token is due
  fetches,               \* history fetches in flight
  clock,                 \* Date.now()
  wire,                  \* the frames the last task wrote to sockets
  seeded,                \* (history) the snapshot of the last seed
  arrived                \* (history) the chat messages delivered since, in order,
                         \* or the fetches that settled

vars == <<lifecycle, propertyId, stored, token, connState, error, messages,
          wsRef, reconnectAttemptsRef, connectingRef, sockets, task, renderDue,
          fetches, clock, wire, seeded, arrived>>

\* ------------------------------------------------------------ texts
\* A text is its leading/trailing whitespace and what trim() leaves of it:
\* ws is the number of whitespace characters around the body, len the
\* length of the body, body names the characters of the body.
Text(ws, len, body) == [ws |-> ws, len |-> len, body |-> body]
EmptyText == Text(0, 0, "")

\* String.prototype.trim
Trim(t) == [t EXCEPT !.ws = 0]

\* String.prototype.length
Length(t) == t.ws + t.len

\* What the user can have typed
Inputs == {Text(2, 0, ""), Text(2, 2, "hi"), Text(0, MaxTextLen, "long"),
           Text(0, MaxTextLen + 1, "over")}

\* ------------------------------------------------------------ messages
\* A transcript entry is a ChatMessage, with two ghost fields: src, the way
\* it came into the transcript, and cur, whether that happened during the
\* current activation of a property.
ChatMessage(id, pid, sender, text, at, src) ==
  [id |-> id, property_id |-> pid, sender_id |-> sender, text |-> text,
   created_at |-> at, src |-> src, cur |-> TRUE]

\* What the history service returns for a property: oldest first, ids distinct
HistMsg(id, pid) == ChatMessage(id, pid, OtherId, Text(0, 7, "earlier"), id, "hist")
Snapshots(pid) == {<<>>, <<HistMsg(1, pid)>>, <<HistMsg(1, pid), HistMsg(2, pid)>>}

\* ------------------------------------------------------------ frames
\* An inbound frame is what JSON.parse makes of evt.data: json is "invalid"
\* when it throws, "null", "number" (a primitive) or "object"; an object has
\* a type and the four checked fields, each with its typeof and value.
Field(t, v) == [typeof |-> t, value |-> v]
Num(n) == Field("number", n)
Str(s) == Field("string", s)
Undefined == Field("undefined", 0)
UndefinedText == Field("undefined", EmptyText)
Frame(json, type, id, pid, sender, text, at) ==
  [json |-> json, type |-> type, id |-> id, property_id |-> pid,
   sender_id |-> sender, text |-> text, created_at |-> at]
ChatFrame(id, pid, sender, at) ==
  Frame("object", "", Num(id), Num(pid), Num(sender), Str(Text(0, 5, "hello")), at)
ErrorFrame == Frame("object", "error", Undefined, Undefined, Undefined, UndefinedText, 0)
BadFrames(pid) ==
  { Frame("invalid", "", Undefined, Undefined, Undefined, UndefinedText, 0),
    Frame("null", "", Undefined, Undefined, Undefined, UndefinedText, 0),
    Frame("object", "", Str(1), Num(pid), Num(OtherId), Str(Text(0, 5, "hello")), 1),
    Frame("object", "", Num(1), Num(pid), Num(OtherId), UndefinedText, 1) }
\* Server broadcasts for a property: id 1 from the other participant and id 2,
\* with an earlier timestamp, echoing the user
LiveFrames(pid) == {ChatFrame(1, pid, OtherId, 2), ChatFrame(2, pid, UserId, 1)}
Frames(pid) == LiveFrames(pid) \cup {ErrorFrame} \cup BadFrames(pid)
\* The server's broadcasts of what the user sent: the user as sender, the
\* text of the send, a server-issued id
Echoes(pid) ==
  { Frame("object", "", Num(1), Num(pid), Num(UserId), Str(Text(0, 2, "hi")), 1),
    Frame("object", "", Num(2), Num(pid), Num(UserId),
          Str(Text(0, MaxTextLen, "long")), 2) }
\* Broadcasts with a third id, stamped before the others
ReconcilerFrames(pid) == LiveFrames(pid) \cup {ChatFrame(3, pid, OtherId, 0)}

\* ------------------------------------------------------------ sockets
NoSocket == [phase |-> "free", pid |-> 0, stale |-> FALSE, timer |-> "none",
             timeout |-> 0]
\* new WebSocket(url): readyState CONNECTING; pid is the property of the url,
\* stale (ghost) tells whether the connect closure that made it belongs to a
\* session that was torn down
NewSocket(pid, stale) == [NoSocket EXCEPT !.phase = "connecting", !.pid = pid,
                                          !.stale = stale]

Min(a, b) == IF a <= b THEN a ELSE b

\* ------------------------------------------------------------ the panel
\* The part of the state that connect(), the socket handlers and the effects
\* read and write, as one record; ok tells that every socket asked for could
\* be allocated a slot.
Cur == [connState |-> connState, error |-> error, wsRef |-> wsRef,
        connectingRef |-> connectingRef,
        reconnectAttemptsRef |-> reconnectAttemptsRef,
        sockets |-> sockets, token |-> token, ok |-> TRUE]

\* A state setter: React ignores it once the component has unmounted
SetConnState(c, v) == IF lifecycle = "unmounted" THEN c ELSE [c EXCEPT !.connState = v]
SetError(c, v) == IF lifecycle = "unmounted" THEN c ELSE [c EXCEPT !.error = v]

FreeSlots(c) == {k \in Slots : c.sockets[k].phase = "free"}
LowestFree(c) == CHOOSE k \in FreeSlots(c) : \A j \in FreeSlots(c) : k <= j

\* ws.close(): a connecting or open socket starts closing; its close event
\* is dispatched by a later task
CloseSocket(c, s) ==
  IF s # 0 /\ c.sockets[s].phase \in {"connecting", "open"}
  THEN [c EXCEPT !.sockets[s].phase = "closing"]
  ELSE c

\* connect(), called through a closure over (pid, tok); stale is the ghost of
\* that closure
ConnectNoSingleFlight(c, pid, tok, stale) ==
  IF ~tok THEN c
  ELSE IF FreeSlots(c) = {} THEN [c EXCEPT !.ok = FALSE]
  ELSE LET k == LowestFree(c)
           c1 == [c EXCEPT !.connectingRef = TRUE]
           c2 == SetError(SetConnState(c1, "connecting"), "")
       IN [c2 EXCEPT !.sockets[k] = NewSocket(pid, stale), !.wsRef = k]
Connect(c, pid, tok, stale) ==
  IF ~tok \/ c.connectingRef THEN c
  ELSE IF FreeSlots(c) = {} THEN [c EXCEPT !.ok = FALSE]
  ELSE LET k == LowestFree(c)
           c1 == [c EXCEPT !.connectingRef = TRUE]
           c2 == SetError(SetConnState(c1, "connecting"), "")
       IN [c2 EXCEPT !.sockets[k] = NewSocket(pid, stale), !.wsRef = k]

\* The session of every socket made so far is torn down (ghost)
MarkStale(c) ==
  [c EXCEPT !.sockets = [k \in Slots |->
      IF c.sockets[k].phase = "free" THEN c.sockets[k]
      ELSE [c.sockets[k] EXCEPT !.stale = TRUE]]]

\* The cleanup of the connect effect, which an effect run without a token
\* did not return: closes wsRef.current and nulls it
Cleanup(c, hadToken) ==
  IF hadToken THEN [CloseSocket(MarkStale(c), c.wsRef) EXCEPT !.wsRef = 0]
  ELSE MarkStale(c)

\* The connect effect of a render whose connect or token differs from the
\* previous render's: the cleanup of the previous run, then the new run
ConnectEffect(c, pid, tok) ==
  Connect([Cleanup(c, c.token) EXCEPT !.token = tok], pid, tok, FALSE)

StateChanged(c) == c.connState # connState \/ c.error # error

\* A closed socket whose timer has fired and which wsRef does not hold is
\* unreachable: its slot is free again
Collect(c) ==
  [c EXCEPT !.sockets = [k \in Slots |->
      IF c.sockets[k].phase = "closed" /\ c.sockets[k].timer = "fired" /\ c.wsRef # k
      THEN NoSocket ELSE c.sockets[k]]]

\* The task ends and the record becomes the next state. A task that changed
\* React state is followed by a render, which reads getToken() again: that
\* render is due as a step of its own when it will find another token.
Commit(c0, changed) ==
  LET c == Collect(c0) IN
  /\ c.ok
  /\ connState' = c.connState
  /\ error' = c.error
  /\ wsRef' = c.wsRef
  /\ connectingRef' = c.connectingRef
  /\ reconnectAttemptsRef' = c.reconnectAttemptsRef
  /\ sockets' = c.sockets
  /\ token' = c.token
  /\ renderDue' = (lifecycle = "mounted" /\ changed /\ stored # c.token)

\* No task is half-way and no render is due
Idle == task = 0 /\ ~renderDue

\* ------------------------------------------------------------ reconciler
HasId(prev, id) == \E i \in 1..Len(prev) : prev[i].id = id

\* setMessages((prev) => ...) of ws.onmessage: append unless the id is there
IngestLiveNoDedup(prev, msg) == Append(prev, msg)
IngestLiveSorted(prev, msg) ==
  IF HasId(prev, msg.id) THEN prev
  ELSE LET older == SelectSeq(prev, LAMBDA m : m.created_at <= msg.created_at)
           newer == SelectSeq(prev, LAMBDA m : m.created_at > msg.created_at)
       IN older \o <<msg>> \o newer
IngestLiveRetiresPending(prev, msg) ==
  IF HasId(prev, msg.id) THEN prev
  ELSE Append(SelectSeq(prev, LAMBDA m : ~(m.id < 0 /\ m.text = msg.text
                                            /\ m.sender_id = msg.sender_id)),
              msg)
IngestLive(prev, msg) == IF HasId(prev, msg.id) THEN prev ELSE Append(prev, msg)

\* setMessages((prev) => [...prev, optimistic]) of send
IngestOptimistic(prev, msg) == Append(prev, msg)

\* setMessages(hist) of the history effect
Seed(prev, hist) == hist

\* The typeof checks of ws.onmessage on a parsed frame
IsChatMessageNoTextCheck(f) ==
  /\ f.json = "object"
  /\ f.id.typeof = "number"
  /\ f.property_id.typeof = "number"
  /\ f.sender_id.typeof = "number"
IsChatMessage(f) ==
  /\ f.json = "object"
  /\ f.id.typeof = "number"
  /\ f.property_id.typeof = "number"
  /\ f.sender_id.typeof = "number"
  /\ f.text.typeof = "string"

IsErrorFrame(f) == f.json = "object" /\ f.type = "error"

\* The entry ws.onmessage appends for a frame that passes the checks
LiveMsg(f) == ChatMessage(f.id.value, f.property_id.value, f.sender_id.value,
                          f.text.value, f.created_at, "live")

\* `${data.code}: ${data.message}`
FrameErrorText == "code: message"

\* ------------------------------------------------------------ lifecycle
NewFetch(pid) == [pid |-> pid, mounted |-> TRUE]
\* mounted = false of the history effect's cleanup
CancelFetchesForgets(fs) == fs
CancelFetches(fs) == {[f EXCEPT !.mounted = FALSE] : f \in fs}
\* The entries of the transcript now belong to an earlier activation (ghost)
Outdate(ms) == [i \in 1..Len(ms) |-> [ms[i] EXCEPT !.cur = FALSE]]

\* First render of <ChatPanel propertyId={p} /> and its effects
Mount(p) ==
  /\ lifecycle = "init"
  /\ lifecycle' = "mounted"
  /\ propertyId' = p
  /\ fetches' = {NewFetch(p)}
  /\ Commit(Connect([SetError(Cur, "") EXCEPT !.token = stored], p, stored, FALSE),
            FALSE)
  /\ wire' = <<>>
  /\ UNCHANGED <<stored, messages, task, clock, seeded, arrived>>

\* The parent renders the panel with another propertyId: the cleanups of
\* both effects, then the history effect and the connect effect again
ChangeProperty(q) ==
  /\ lifecycle = "mounted" /\ Idle
  /\ q # propertyId
  /\ propertyId' = q
  /\ fetches' = CancelFetches(fetches) \cup {NewFetch(q)}
  /\ messages' = Outdate(messages)
  /\ Commit(ConnectEffect(SetError(Cur, ""), q, stored), FALSE)
  /\ wire' = <<>>
  /\ UNCHANGED <<lifecycle, stored, task, clock, seeded, arrived>>

\* The panel is removed: the cleanups of both effects
Unmount ==
  /\ lifecycle = "mounted" /\ Idle
  /\ lifecycle' = "unmounted"
  /\ fetches' = CancelFetches(fetches)
  /\ Commit(Cleanup(Cur, token), FALSE)
  /\ wire' = <<>>
  /\ UNCHANGED <<propertyId, stored, messages, task, clock, seeded, arrived>>

\* The render that follows a task which changed React state, when
\* getToken() has changed since the last render: the connect effect re-runs
Render ==
  /\ renderDue /\ task = 0
  /\ Commit(ConnectEffect(Cur, propertyId, stored), FALSE)
  /\ wire' = <<>>
  /\ UNCHANGED <<lifecycle, propertyId, stored, messages, task, fetches, clock, seeded, arrived>>

\* saveAuth / clearAuth elsewhere in the application
Login ==
  /\ lifecycle = "mounted" /\ Idle
  /\ ~stored
  /\ stored' = TRUE
  /\ wire' = <<>>
  /\ UNCHANGED <<lifecycle, propertyId, token, connState, error, messages,
                 wsRef, reconnectAttemptsRef, connectingRef, sockets, task,
                 renderDue, fetches, clock, seeded, arrived>>
Logout ==
  /\ lifecycle = "mounted" /\ Idle
  /\ stored
  /\ stored' = FALSE
  /\ wire' = <<>>
  /\ UNCHANGED <<lifecycle, propertyId, token, connState, error, messages,
                 wsRef, reconnectAttemptsRef, connectingRef, sockets, task,
                 renderDue, fetches, clock, seeded, arrived>>

\* Time passes
Tick ==
  /\ Idle
  /\ clock < MaxClock
  /\ clock' = clock + 1
  /\ wire' = <<>>
  /\ UNCHANGED <<lifecycle, propertyId, stored, token, connState, error, messages,
                 wsRef, reconnectAttemptsRef, connectingRef, sockets, task,
                 renderDue, fetches, seeded, arrived>>

\* ------------------------------------------------------------ history fetch
\* listMessagesHistory resolves with hist
FetchResolveStep(f, hist) ==
  /\ Idle
  /\ f \in fetches
  /\ fetches' = fetches \ {f}
  /\ messages' = IF f.mounted THEN Seed(messages, hist) ELSE messages
  /\ Commit(Cur, messages' # messages)
  /\ wire' = <<>>
  /\ UNCHANGED <<lifecycle, propertyId, stored, task, clock>>

FetchResolve(f, hist) == FetchResolveStep(f, hist) /\ UNCHANGED <<seeded, arrived>>

\* The same, with the snapshot applied kept as history
FetchResolveLogged(f, hist) ==
  /\ FetchResolveStep(f, hist)
  /\ seeded' = IF f.mounted THEN hist ELSE seeded
  /\ arrived' = IF f.mounted THEN <<>> ELSE arrived

\* The same, with the fetch that settled kept as history
FetchResolveTraced(f, hist) ==
  /\ FetchResolveStep(f, hist)
  /\ arrived' = Append(arrived, f)
  /\ UNCHANGED seeded

\* The catch of the history effect
FetchFailHandlerSilent(c, f) == c
FetchFailHandler(c, f) ==
  IF f.mounted THEN SetError(c, "Failed to load messages") ELSE c

\* listMessagesHistory rejects
FetchFailStep(f) ==
  /\ Idle
  /\ f \in fetches
  /\ fetches' = fetches \ {f}
  /\ LET c == FetchFailHandler(Cur, f) IN Commit(c, StateChanged(c))
  /\ wire' = <<>>
  /\ UNCHANGED <<lifecycle, propertyId, stored, messages, task, clock>>

FetchFail(f) == FetchFailStep(f) /\ UNCHANGED <<seeded, arrived>>

\* The same, with the fetch that settled kept as history
FetchFailTraced(f) ==
  /\ FetchFailStep(f)
  /\ arrived' = Append(arrived, f)
  /\ UNCHANGED seeded

\* ------------------------------------------------------------ socket events
\* A socket whose event can be dispatched by a new task
Dispatchable(s, phases) == Idle /\ sockets[s].phase \in phases

\* ws.onopen
OnOpenKeepsAttempts(c, s) ==
  LET c1 == [c EXCEPT !.sockets[s].phase = "open", !.connectingRef = FALSE]
  IN SetError(SetConnState(c1, "connected"), "")
OnOpenHandler(c, s) ==
  LET c1 == [c EXCEPT !.sockets[s].phase = "open",
                      !.reconnectAttemptsRef = 0,
                      !.connectingRef = FALSE]
  IN SetError(SetConnState(c1, "connected"), "")

OnOpen(s) ==
  /\ Dispatchable(s, {"connecting"})
  /\ LET c == OnOpenHandler(Cur, s) IN Commit(c, StateChanged(c))
  /\ wire' = <<>>
  /\ UNCHANGED <<lifecycle, propertyId, stored, messages, task, fetches, clock, seeded, arrived>>

\* ws.onmessage: what the frame does to the transcript and to the error
OnMessageTranscript(prev, f) ==
  IF f.json = "invalid" THEN prev
  ELSE IF IsErrorFrame(f) THEN prev
  ELSE IF f.json = "null" THEN prev
  ELSE IF IsChatMessage(f) THEN IngestLive(prev, LiveMsg(f))
  ELSE prev
OnMessageErrorDropped(c, f) == c
OnMessageError(c, f) ==
  IF f.json # "invalid" /\ IsErrorFrame(f) THEN SetError(c, FrameErrorText) ELSE c

OnMessageStep(s, f) ==
  /\ Dispatchable(s, {"open"})
  /\ messages' = IF lifecycle = "unmounted" THEN messages
                 ELSE OnMessageTranscript(messages, f)
  /\ LET c == OnMessageError(Cur, f)
     IN Commit(c, StateChanged(c) \/ messages' # messages)
  /\ wire' = <<>>
  /\ UNCHANGED <<lifecycle, propertyId, stored, task, fetches, clock>>

OnMessage(s, f) == OnMessageStep(s, f) /\ UNCHANGED <<seeded, arrived>>

\* The same, with the frame delivered kept as history
OnMessageLogged(s, f) ==
  /\ OnMessageStep(s, f)
  /\ arrived' = Append(arrived, f)
  /\ UNCHANGED seeded

\* Math.min(5000, 300 * attempt)
BackoffUncapped(attempt) == BaseMs * attempt
Backoff(attempt) == Min(CapMs, BaseMs * attempt)

\* ws.onclose: the socket is closed, the attempt is counted and the reconnect
\* timer is set
OnCloseHandler(c, s) ==
  LET attempt == c.reconnectAttemptsRef + 1
      c1 == [c EXCEPT !.sockets[s].phase = "closed",
                      !.connectingRef = FALSE,
                      !.reconnectAttemptsRef = attempt,
                      !.sockets[s].timer = "pending",
                      !.sockets[s].timeout = Backoff(attempt)]
  IN SetConnState(c1, "disconnected")

\* The close event of a socket, alone or right after its error event
OnClose(s) ==
  /\ \/ Dispatchable(s, {"connecting", "open", "closing"})
     \/ task = s
  /\ task' = 0
  /\ LET c == OnCloseHandler(Cur, s) IN Commit(c, StateChanged(c) \/ task = s)
  /\ wire' = <<>>
  /\ UNCHANGED <<lifecycle, propertyId, stored, messages, fetches, clock, seeded, arrived>>

\* ws.onerror, the first half of the task that fails a connection; the close
\* event follows in the same task
OnErrorHandlerCounts(c, s) ==
  LET c1 == [c EXCEPT !.connectingRef = FALSE,
                      !.reconnectAttemptsRef = c.reconnectAttemptsRef + 1]
      c2 == SetError(SetConnState(c1, "error"), "WebSocket error")
  IN CloseSocket(c2, s)
OnErrorHandlerResets(c, s) ==
  LET c1 == [c EXCEPT !.connectingRef = FALSE, !.reconnectAttemptsRef = 0]
      c2 == SetError(SetConnState(c1, "error"), "WebSocket error")
  IN CloseSocket(c2, s)
OnErrorHandler(c, s) ==
  LET c1 == [c EXCEPT !.connectingRef = FALSE]
      c2 == SetError(SetConnState(c1, "error"), "WebSocket error")
  IN CloseSocket(c2, s)

OnError(s) ==
  /\ Dispatchable(s, {"connecting", "open", "closing"})
  /\ task' = s
  /\ Commit(OnErrorHandler(Cur, s), FALSE)
  /\ wire' = <<>>
  /\ UNCHANGED <<lifecycle, propertyId, stored, messages, fetches, clock, seeded, arrived>>

\* The callback of the timer set by the close of socket s: if (token) connect(),
\* through the closure of the connect that made s
TimerHandlerGivesUp(c, s) ==
  Collect([c EXCEPT !.sockets[s].timer = "fired", !.sockets[s].timeout = 0])
TimerHandler(c, s) ==
  LET c1 == Collect([c EXCEPT !.sockets[s].timer = "fired",
                              !.sockets[s].timeout = 0])
  IN Connect(c1, sockets[s].pid, TRUE, sockets[s].stale)

TimerFire(s) ==
  /\ Idle
  /\ sockets[s].timer = "pending"
  /\ LET c == TimerHandler(Cur, s) IN Commit(c, StateChanged(c))
  /\ wire' = <<>>
  /\ UNCHANGED <<lifecycle, propertyId, stored, messages, task, fetches, clock, seeded, arrived>>

\* ------------------------------------------------------------ send
\* The form is rendered only for a logged-in user
FormShown == lifecycle = "mounted" /\ token /\ Idle

\* onChange of the text input: setInput, and the render after it
Type ==
  /\ FormShown
  /\ stored # token
  /\ renderDue' = TRUE
  /\ wire' = <<>>
  /\ UNCHANGED <<lifecycle, propertyId, stored, token, connState, error, messages,
                 wsRef, reconnectAttemptsRef, connectingRef, sockets, task,
                 fetches, clock, seeded, arrived>>

\* -Date.now()
TmpId == -clock

\* The optimistic entry of send
Optimistic(text) == ChatMessage(TmpId, propertyId, UserId, text, clock, "opt")

\* wsRef.current.send(JSON.stringify({ text })): an open socket takes the
\* frame, a closing or closed one discards it
Written(s, text) ==
  IF sockets[s].phase = "open"
  THEN <<[pid |-> sockets[s].pid, text |-> text]>>
  ELSE <<>>

\* The guards of send: a socket handle, the state "connected", and a trimmed
\* text of 1 to 1000 characters
SendAcceptedAnyLength(text) == wsRef # 0 /\ connState = "connected"
SendAccepted(text) ==
  /\ wsRef # 0 /\ connState = "connected"
  /\ Length(text) >= 1 /\ Length(text) <= MaxTextLen

\* The transcript send leaves for the text of the input box
SendTranscript(input) ==
  IF SendAccepted(Trim(input))
  THEN IngestOptimistic(messages, Optimistic(Trim(input)))
  ELSE messages

\* The frames send writes for the text of the input box
SendWireUnguarded(input) ==
  IF wsRef # 0 THEN Written(wsRef, Trim(input)) ELSE <<>>
SendWire(input) ==
  IF SendAccepted(Trim(input)) THEN Written(wsRef, Trim(input)) ELSE <<>>

\* The error send leaves for the text of the input box: unchanged by the
\* silent return without a handle or a connection, the validation message,
\* or the message of the catch around wsRef.current.send, which throws on a
\* socket that is still connecting
SendErrorIgnoresThrow(input) ==
  IF wsRef = 0 \/ connState # "connected" THEN error
  ELSE IF ~SendAccepted(Trim(input)) THEN "Message must be 1..1000 characters"
  ELSE error
SendError(input) ==
  IF wsRef = 0 \/ connState # "connected" THEN error
  ELSE IF ~SendAccepted(Trim(input)) THEN "Message must be 1..1000 characters"
  ELSE IF sockets[wsRef].phase = "connecting" THEN "Failed to send message"
  ELSE error

\* send, the submit handler of the form, with the text of the input box
Send(input) ==
  /\ FormShown
  /\ messages' = SendTranscript(input)
  /\ wire' = SendWire(input)
  /\ IF wsRef = 0 \/ connState # "connected"
     THEN UNCHANGED <<connState, error, wsRef, token, renderDue,
                      connectingRef, reconnectAttemptsRef, sockets>>
     ELSE LET c == SetError(Cur, SendError(input))
          IN Commit(c, StateChanged(c) \/ SendAccepted(Trim(input)))
  /\ UNCHANGED <<lifecycle, propertyId, stored, task, fetches, clock, seeded, arrived>>

\* ------------------------------------------------------------ specification
Init ==
  /\ lifecycle = "init"
  /\ propertyId = 0
  /\ stored \in BOOLEAN
  /\ token = FALSE
  /\ connState = "disconnected"
  /\ error = ""
  /\ messages = <<>>
  /\ wsRef = 0
  /\ reconnectAttemptsRef = 0
  /\ connectingRef = FALSE
  /\ sockets = [k \in Slots |-> NoSocket]
  /\ task = 0
  /\ renderDue = FALSE
  /\ fetches = {}
  /\ clock = 1
  /\ wire = <<>>
  /\ seeded = <<>>
  /\ arrived = <<>>

Next ==
  \/ \E p \in Props : Mount(p)
  \/ \E q \in Props : ChangeProperty(q)
  \/ Unmount
  \/ Render
  \/ Login
  \/ Logout
  \/ Tick
  \/ \E f \in fetches : \E hist \in Snapshots(f.pid) : FetchResolve(f, hist)
  \/ \E f \in fetches : FetchFail(f)
  \/ \E s \in Slots : OnOpen(s)
  \/ \E s \in Slots : \E f \in Frames(sockets[s].pid) :
       OnMessage(s, f) /\ Len(messages') <= MaxMsgs
  \/ \E s \in Slots : OnClose(s) /\ reconnectAttemptsRef' <= MaxAttempts
  \/ \E s \in Slots : OnError(s)
  \/ \E s \in Slots : TimerFire(s)
  \/ Type
  \/ \E t \in Inputs : Send(t) /\ Len(messages') <= MaxMsgs

Spec == Init /\ [][Next]_vars

\* The connection supervisor: the sessions of the panel, their sockets and
\* timers, with no history and no chat traffic
NextConn ==
  \/ \E p \in Props : Mount(p)
  \/ \E q \in Props : ChangeProperty(q)
  \/ Unmount
  \/ \E s \in Slots : OnOpen(s)
  \/ \E s \in Slots : OnMessage(s, ErrorFrame)
  \/ \E s \in Slots : OnClose(s) /\ reconnectAttemptsRef' <= MaxAttempts
  \/ \E s \in Slots : OnError(s)
  \/ \E s \in Slots : TimerFire(s)

SpecConn == Init /\ [][NextConn]_vars

\* The transcript of one activation: its history, chat traffic and sends
NextChat ==
  \/ \E p \in Props : Mount(p)
  \/ Tick
  \/ \E f \in fetches : \E hist \in Snapshots(f.pid) : FetchResolve(f, hist)
  \/ \E f \in fetches : FetchFail(f)
  \/ \E s \in Slots : OnOpen(s)
  \/ \E s \in Slots : \E f \in Frames(sockets[s].pid) :
       OnMessage(s, f) /\ Len(messages') <= MaxMsgs
  \/ \E s \in Slots : OnClose(s) /\ reconnectAttemptsRef' <= MaxAttempts
  \/ \E s \in Slots : TimerFire(s)
  \/ \E t \in Inputs : Send(t) /\ Len(messages') <= MaxMsgs

SpecChat == Init /\ [][NextChat]_vars

\* The sends of a panel across its sessions: resource changes, socket events
\* and reconnect timers, with the form submitted at any idle moment
NextSend ==
  \/ \E p \in Props : Mount(p)
  \/ \E q \in Props : ChangeProperty(q)
  \/ \E s \in Slots : OnOpen(s)
  \/ \E s \in Slots : OnClose(s) /\ reconnectAttemptsRef' <= MaxAttempts
  \/ \E s \in Slots : TimerFire(s)
  \/ \E t \in Inputs : Send(t) /\ Len(messages') <= MaxMsgs

SpecSend == Init /\ [][NextSend]_vars

\* The reconciler: one activation, its seed and the chat messages delivered,
\* with the snapshot and the deliveries kept as history
NextR ==
  \/ \E p \in Props : Mount(p)
  \/ \E s \in Slots : OnOpen(s)
  \/ \E f \in fetches : \E hist \in Snapshots(f.pid) : FetchResolveLogged(f, hist)
  \/ \E s \in Slots : \E f \in ReconcilerFrames(sockets[s].pid) :
       OnMessageLogged(s, f) /\ Len(arrived') <= MaxArrived

SpecR == Init /\ [][NextR]_vars

\* The inbound frames of one activation, of every kind, kept as history
NextF ==
  \/ \E p \in Props : Mount(p)
  \/ \E s \in Slots : OnOpen(s)
  \/ \E s \in Slots : \E f \in Frames(sockets[s].pid) :
       OnMessageLogged(s, f) /\ Len(arrived') <= MaxArrived

SpecF == Init /\ [][NextF]_vars

\* The token: logins and logouts elsewhere in the application during one
\* activation, the renders that notice them, and the sockets and timers
NextAuth ==
  \/ \E p \in Props : Mount(p)
  \/ Render
  \/ Login
  \/ Logout
  \/ \E s \in Slots : OnOpen(s)
  \/ \E s \in Slots : OnClose(s) /\ reconnectAttemptsRef' <= MaxAttempts
  \/ \E s \in Slots : TimerFire(s)

SpecAuth == Init /\ [][NextAuth]_vars

\* The sends of one activation and the server's broadcasts of them
NextEcho ==
  \/ \E p \in Props : Mount(p)
  \/ Tick
  \/ \E s \in Slots : OnOpen(s)
  \/ \E t \in Inputs : Send(t) /\ Len(messages') <= MaxMsgs
  \/ \E s \in Slots : \E f \in Echoes(sockets[s].pid) :
       OnMessage(s, f) /\ Len(messages') <= MaxMsgs

SpecEcho == Init /\ [][NextEcho]_vars

\* The transcript across activations: resource changes, the history fetches
\* and the chat traffic of the sockets
NextSwitch ==
  \/ \E p \in Props : Mount(p)
  \/ \E q \in Props : ChangeProperty(q)
  \/ \E f \in fetches : \E hist \in Snapshots(f.pid) : FetchResolve(f, hist)
  \/ \E f \in fetches : FetchFail(f)
  \/ \E s \in Slots : OnOpen(s)
  \/ \E s \in Slots : \E f \in LiveFrames(sockets[s].pid) :
       OnMessage(s, f) /\ Len(messages') <= MaxMsgs
  \/ \E s \in Slots : OnClose(s) /\ reconnectAttemptsRef' <= MaxAttempts
  \/ \E s \in Slots : TimerFire(s)

SpecSwitch == Init /\ [][NextSwitch]_vars

\* The sends of one activation across logouts and logins elsewhere in the
\* application, with the renders that notice them
NextThrow ==
  \/ \E p \in Props : Mount(p)
  \/ Render
  \/ Login
  \/ Logout
  \/ \E s \in Slots : OnOpen(s)
  \/ \E s \in Slots : OnClose(s) /\ reconnectAttemptsRef' <= MaxFailures
  \/ \E s \in Slots : TimerFire(s)
  \/ \E t \in Inputs : Send(t) /\ Len(messages') <= MaxSent

SpecThrow == Init /\ [][NextThrow]_vars

\* The history fetches across activations and the unmount, each fetch that
\* settles kept as history, while the sockets are silent
NextHist ==
  \/ \E p \in Props : Mount(p)
  \/ \E q \in Props : ChangeProperty(q)
  \/ Unmount
  \/ \E f \in fetches : \E hist \in Snapshots(f.pid) :
       FetchResolveTraced(f, hist) /\ Len(arrived') <= MaxArrived
  \/ \E f \in fetches : FetchFailTraced(f) /\ Len(arrived') <= MaxArrived

SpecHist == Init /\ [][NextHist]_vars

\* The backoff: one session whose sockets open, fail and close again and again
NextB ==
  \/ \E p \in Props : Mount(p)
  \/ \E s \in Slots : OnOpen(s)
  \/ \E s \in Slots : OnClose(s) /\ reconnectAttemptsRef' <= MaxBackoff
  \/ \E s \in Slots : OnError(s)
  \/ \E s \in Slots : TimerFire(s)

SpecB == Init /\ [][NextB]_vars

\* The history fetch of one activation beside its socket, the fetch that
\* settled and the chat messages delivered kept as history in their order
NextFail ==
  \/ \E p \in Props : Mount(p)
  \/ \E f \in fetches : \E hist \in Snapshots(f.pid) :
       FetchResolveTraced(f, hist) /\ Len(arrived') <= MaxArrived
  \/ \E f \in fetches : FetchFailTraced(f) /\ Len(arrived') <= MaxArrived
  \/ \E s \in Slots : OnOpen(s)
  \/ \E s \in Slots : \E f \in LiveFrames(sockets[s].pid) :
       OnMessageLogged(s, f) /\ Len(arrived') <= MaxArrived
  \/ \E s \in Slots : OnClose(s) /\ reconnectAttemptsRef' <= MaxAttempts
  \/ \E s \in Slots : TimerFire(s)

SpecFail == Init /\ [][NextFail]_vars

\* The attempt count of one activation among every kind of event: fetches,
\* frames of every kind, sends, transport errors, closes and timers
NextCount ==
  \/ \E p \in Props : Mount(p)
  \/ \E f \in fetches : \E hist \in Snapshots(f.pid) : FetchResolve(f, hist)
  \/ \E f \in fetches : FetchFail(f)
  \/ \E s \in Slots : OnOpen(s)
  \/ \E s \in Slots : \E f \in Frames(sockets[s].pid) :
       OnMessage(s, f) /\ Len(messages') <= MaxSent
  \/ \E s \in Slots : OnClose(s) /\ reconnectAttemptsRef' <= MaxAttempts
  \/ \E s \in Slots : OnError(s)
  \/ \E s \in Slots : TimerFire(s)
  \/ \E t \in Inputs : Send(t) /\ Len(messages') <= MaxSent

SpecCount == Init /\ [][NextCount]_vars

\* The backoff under the scheduling of the browser: a timer that is set
\* fires, and the close event of a failed socket follows its error event
NextLive ==
  \/ \E p \in Props : Mount(p)
  \/ \E s \in Slots : OnOpen(s)
  \/ \E s \in Slots : OnClose(s) /\ reconnectAttemptsRef' <= MaxBackoff
  \/ \E s \in Slots : OnError(s) /\ reconnectAttemptsRef < MaxBackoff
  \/ \E s \in Slots : TimerFire(s)

Fairness ==
  \A s \in Slots : /\ WF_vars(TimerFire(s))
                   /\ WF_vars(task = s /\ OnClose(s))

SpecLive == Init /\ [][NextLive]_vars /\ Fairness

\* ------------------------------------------------------------ claims
Live(s) == sockets[s].phase \in {"connecting", "open"}
Created(s) == sockets[s].phase # "connecting" /\ sockets'[s].phase = "connecting"
Opened(s) == sockets[s].phase = "connecting" /\ sockets'[s].phase = "open"
Closed(s) == sockets[s].phase \in {"connecting", "open", "closing"}
             /\ sockets'[s].phase = "closed"
Ids(ms) == {ms[i].id : i \in 1..Len(ms)}
Last(ms) == ms[Len(ms)]
\* An entry pushed by the socket or added by a send during this activation
Layered(m) == m.cur /\ m.src \in {"live", "opt"}
\* The step of an accepted send: one optimistic entry more
Sent == Len(messages') = Len(messages) + 1 /\ Last(messages').src = "opt"

\* C1: in every reachable state at most one socket created by the panel is
\* connecting or open.
C1_AtMostOneLiveSocket == Cardinality({s \in Slots : Live(s)}) <= 1

\* C2: once a session is torn down, no reconnect timer of that session opens
\* a new socket: no step creates a socket through the connect closure of a
\* torn-down session.
C2_NoReconnectAfterTeardown ==
  [][\A s \in Slots : Created(s) => ~sockets'[s].stale]_vars

\* C3: the seed comes before the live and optimistic entries of its
\* activation: no step removes from the transcript an entry that a socket
\* pushed or a send added during the current activation.
C3_SeedNeverRemovesLayered ==
  [][\A i \in 1..Len(messages) :
       Layered(messages[i]) =>
         \E j \in 1..Len(messages') : messages'[j] = messages[i]]_vars

\* C4: the ids of the transcript entries are pairwise distinct in every
\* reachable state.
C4_UniqueIds ==
  \A i, j \in 1..Len(messages) : i # j => messages[i].id # messages[j].id

\* C5: the placeholder id of every accepted send is negative and differs from
\* the placeholder id of every earlier accepted send still in the transcript.
C5_FreshPlaceholder ==
  [][Sent => /\ Last(messages').id < 0
             /\ Last(messages').id \notin Ids(messages)]_vars

\* C6: delivering a chat message whose id is already in the transcript leaves
\* the transcript as it is.
C6_RepeatedDeliveryIsNoOp ==
  [][(Len(arrived') = Len(arrived) + 1
        /\ Last(arrived').id.value \in Ids(messages)) =>
     messages' = messages]_vars

\* C6 witness: a chat message was delivered twice, or with the id of a seeded
\* entry, and the transcript holds that id once.
C6_Witness ==
  /\ messages # <<>>
  /\ Len(arrived) > Len(messages) - Len(seeded)
  /\ \A i, j \in 1..Len(messages) : i # j => messages[i].id # messages[j].id

\* What a ChatMessage is on the wire, of a transcript entry and of a frame
EntryFields(m) == <<m.id, m.property_id, m.sender_id, m.text, m.created_at>>
FrameFields(f) == <<f.id.value, f.property_id.value, f.sender_id.value,
                    f.text.value, f.created_at>>
\* The first occurrence of each id not yet seen, in order
RECURSIVE FirstOccurrences(_, _)
FirstOccurrences(fs, seen) ==
  IF fs = <<>> THEN <<>>
  ELSE IF Head(fs).id.value \in seen THEN FirstOccurrences(Tail(fs), seen)
  ELSE <<FrameFields(Head(fs))>>
         \o FirstOccurrences(Tail(fs), seen \cup {Head(fs).id.value})

\* C7: after seed(S) and the delivery of m1..mn the transcript is S followed
\* by the first occurrence of each id among m1..mn that S does not hold, in
\* the order of arrival whatever their createdAt.
C7_SeedThenArrivalOrder ==
  [i \in 1..Len(messages) |-> EntryFields(messages[i])]
    = [i \in 1..Len(seeded) |-> EntryFields(seeded[i])]
        \o FirstOccurrences(arrived, Ids(seeded))

\* C7 witness: a seeded entry, then two live entries of which the later
\* arrival has the earlier createdAt, after a repeated delivery.
C7_Witness ==
  /\ Len(seeded) = 1 /\ Len(messages) = 3 /\ Len(arrived) = 3
  /\ messages[2].created_at > messages[3].created_at

C9_OpenResets ==
  [][\A s \in Slots : (lifecycle = "mounted" /\ Opened(s)) =>
        /\ connState' = "connected"
        /\ reconnectAttemptsRef' = 0
        /\ error' = ""]_vars

\* C9 witness: a socket is open and the panel connected with attempt count 0
\* while the timer set by an earlier close, which counted an attempt, is
\* still pending.
C9_Witness ==
  /\ lifecycle = "mounted" /\ connState = "connected" /\ error = ""
  /\ reconnectAttemptsRef = 0
  /\ \E s, k \in Slots : sockets[s].phase = "open" /\ sockets[k].timer = "pending"

\* C10: whenever the form can be submitted and the panel is connected, a
\* send of a text whose trimmed length is 1 to 1000 leaves the transcript with
\* exactly one more entry, at its end, with a negative id, the trimmed text,
\* the user as sender and the property of the panel, and any frame it writes
\* carries the text of that entry.
C10_ConnectedSendAppends ==
  \A t \in Inputs :
    (FormShown /\ connState = "connected"
       /\ Length(Trim(t)) >= 1 /\ Length(Trim(t)) <= MaxTextLen) =>
    /\ Len(SendTranscript(t)) = Len(messages) + 1
    /\ SubSeq(SendTranscript(t), 1, Len(messages)) = messages
    /\ Last(SendTranscript(t)).id < 0
    /\ Last(SendTranscript(t)).text = Trim(t)
    /\ Last(SendTranscript(t)).sender_id = UserId
    /\ Last(SendTranscript(t)).property_id = propertyId
    /\ \A k \in 1..Len(SendWire(t)) :
         SendWire(t)[k].text = Last(SendTranscript(t)).text

\* C11: a send whose trimmed text is empty or longer than 1000 characters
\* leaves the transcript as it is and writes no frame, whatever the
\* connection state.
C11_InvalidSendRejected ==
  [][\A t \in Inputs :
       (Send(t) /\ (Length(Trim(t)) < 1 \/ Length(Trim(t)) > 1000)) =>
       (messages' = messages /\ wire' = <<>>)]_vars

\* C11 witness: the connected panel, with its socket open and an entry in the
\* transcript, shows the validation message of a rejected send.
C11_Witness ==
  /\ connState = "connected" /\ wsRef # 0 /\ sockets[wsRef].phase = "open"
  /\ error = "Message must be 1..1000 characters"
  /\ messages # <<>> /\ wire = <<>>

\* C12: whenever the form can be submitted and the panel is not connected,
\* a send surfaces an error, writes no frame and leaves the transcript as it
\* is.
C12_NotConnectedSendReported ==
  \A t \in Inputs :
    (FormShown /\ connState # "connected") =>
    /\ SendError(t) # ""
    /\ SendWire(t) = <<>>
    /\ SendTranscript(t) = messages

\* The write of an accepted send throws: the handle is a socket that is still
\* connecting
WriteThrows(t) == SendAccepted(Trim(t)) /\ sockets[wsRef].phase = "connecting"

\* C13: when the write of an accepted send throws, the send error is
\* surfaced, the optimistic entry is the last entry of the transcript after
\* the entries that were there, the connection state, the handle and the
\* sockets are as before and no frame is written; and a step writes a frame
\* only as the one frame of an accepted send, so no other task writes the
\* frame again.
C13_FailedWriteKeepsEntry ==
  [][/\ \A t \in Inputs :
          (Send(t) /\ WriteThrows(t)) =>
          /\ error' = "Failed to send message"
          /\ messages' = Append(messages, Optimistic(Trim(t)))
          /\ connState' = connState /\ wsRef' = wsRef /\ sockets' = sockets
          /\ wire' = <<>>
     /\ wire' # <<>> =>
          /\ Len(wire') = 1
          /\ \E t \in Inputs : Send(t) /\ SendAccepted(Trim(t))
                                /\ wire'[1].text = Trim(t)]_vars

\* C13 witness: the panel is connected, shows the send error, its handle is
\* still connecting, and the optimistic entry is the last of the transcript.
C13_Witness ==
  /\ connState = "connected" /\ error = "Failed to send message"
  /\ wsRef # 0 /\ sockets[wsRef].phase = "connecting"
  /\ messages # <<>> /\ Last(messages).src = "opt" /\ wire = <<>>

\* C14: an error frame delivered to the connected panel surfaces the error
\* of the frame and changes nothing else: the state stays connected, no
\* socket is closed or made, no timer is set, and the attempt count, the
\* handle and the transcript are as before.
C14_ErrorFrameIsAdvisory ==
  /\ [](\A s \in Slots :
          (lifecycle = "mounted" /\ connState = "connected"
             /\ Dispatchable(s, {"open"})) =>
          /\ OnMessageError(Cur, ErrorFrame).error = FrameErrorText
          /\ OnMessageError(Cur, ErrorFrame).connState = "connected"
          /\ OnMessageTranscript(messages, ErrorFrame) = messages)
  /\ [][\A s \in Slots :
          (OnMessage(s, ErrorFrame) /\ lifecycle = "mounted"
             /\ connState = "connected") =>
          /\ error' = FrameErrorText
          /\ connState' = "connected"
          /\ sockets' = sockets
          /\ wsRef' = wsRef
          /\ reconnectAttemptsRef' = reconnectAttemptsRef
          /\ connectingRef' = connectingRef
          /\ messages' = messages]_vars

\* C14 witness: the connected panel shows the error of a frame, its socket
\* open and no timer pending.
C14_Witness ==
  /\ lifecycle = "mounted" /\ connState = "connected" /\ error = FrameErrorText
  /\ wsRef # 0 /\ sockets[wsRef].phase = "open"
  /\ \A k \in Slots : sockets[k].timer # "pending"

\* C15: a frame that is neither an error frame nor a ChatMessage with
\* numeric id, property_id, sender_id and string text (invalid JSON, null, an
\* id of the wrong type, a missing text) is dropped: its delivery leaves the
\* transcript, the error and the connection state as they are.
C15_MalformedFrameDropped ==
  [][\A s \in Slots : \A f \in BadFrames(sockets[s].pid) :
       OnMessageLogged(s, f) =>
       /\ messages' = messages
       /\ error' = error
       /\ connState' = connState]_vars

\* C15 witness: a malformed frame was the last delivered, after a chat
\* message and an error frame whose entry and error are still shown.
C15_Witness ==
  /\ Len(arrived) = 3 /\ Last(arrived) \in BadFrames(propertyId)
  /\ Len(messages) = 1 /\ error = FrameErrorText /\ connState = "connected"

\* C16: in every state of the mounted panel, connect() called without a
\* token, or with one while the state is connecting, returns at once: it
\* makes no socket and leaves the connection state, the error, the attempt
\* count, the single-flight flag and the handle as they are.
C16_ConnectGuardIsNoOp ==
  lifecycle = "mounted" =>
    \A pid \in Props : \A stale \in BOOLEAN :
      /\ Connect(Cur, pid, FALSE, stale) = Cur
      /\ connState = "connecting" => Connect(Cur, pid, TRUE, stale) = Cur

\* C16 witness: the connect effect ran while an attempt was in flight, after
\* its cleanup had closed that socket and nulled the handle: the panel is
\* connecting with no handle and no socket was made.
C16_Witness ==
  /\ lifecycle = "mounted" /\ token /\ connState = "connecting" /\ connectingRef
  /\ wsRef = 0
  /\ \A k \in Slots : sockets[k].phase # "connecting"

\* The callback of a reconnect timer runs in this step
TimerFired == \E k \in Slots : sockets[k].timer = "pending"
                               /\ sockets'[k].timer # "pending"

\* C17: a reconnect timer that fires when no token is stored makes no
\* connection attempt: the step creates no socket and leaves the error and
\* the connection state as they are.
C17_TimerNeedsToken ==
  [][(TimerFired /\ ~stored) =>
       /\ \A s \in Slots : ~Created(s)
       /\ error' = error
       /\ connState' = connState]_vars

\* C18: in a session with a token, whenever a socket has closed and its
\* reconnect timer is pending, or the error event of a socket has been
\* handled, the connection state is eventually connecting again, whatever
\* the attempt count.
C18_EventuallyReconnects ==
  \A s \in Slots :
    (sockets[s].timer = "pending" \/ task = s) ~> (connState = "connecting")

\* C18 witness: the panel is connecting again, with a new socket, after the
\* close of the third failure in a row.
C18_Witness ==
  /\ lifecycle = "mounted" /\ token /\ connState = "connecting"
  /\ reconnectAttemptsRef = 3
  /\ wsRef # 0 /\ sockets[wsRef].phase = "connecting"

\* C19: the delivery of the server's broadcast of a sent message keeps
\* every entry of the transcript, the pending placeholders among them, as it
\* is and where it is, and appends the confirmed message as an entry of its
\* own unless its id is already there.
C19_PlaceholderSurvivesEcho ==
  [][\A s \in Slots : \A f \in Echoes(sockets[s].pid) :
       (OnMessage(s, f) /\ lifecycle = "mounted") =>
       /\ SubSeq(messages', 1, Len(messages)) = messages
       /\ ~HasId(messages, f.id.value) => messages' = Append(messages, LiveMsg(f))]_vars

\* C19 witness: the transcript holds the placeholder of a send and, after
\* it, the confirmed message with the same text and sender.
C19_Witness ==
  /\ Len(messages) = 2
  /\ messages[1].id < 0 /\ messages[1].src = "opt"
  /\ messages[2].id >= 0 /\ messages[2].src = "live"
  /\ messages[2].text = messages[1].text
  /\ messages[2].sender_id = messages[1].sender_id

\* C20: the transcript never holds an entry of an earlier activation for
\* another property together with an entry that a socket pushed or a send
\* added for the property now shown.
C20_NoMixedResources ==
  \A i, j \in 1..Len(messages) :
    ~(/\ ~messages[i].cur /\ messages[i].property_id # propertyId
      /\ Layered(messages[j]) /\ messages[j].property_id = propertyId)

\* A callback of socket s, made by a session that has been torn down, runs
\* in this step: its open event, its close event or its reconnect timer
StaleCallback(s) ==
  /\ sockets[s].stale
  /\ \/ Opened(s)
     \/ Closed(s)
     \/ sockets[s].timer = "pending" /\ sockets'[s].timer # "pending"

\* C21: while the panel is mounted, a callback of a socket of a torn-down
\* session leaves the connection state, the single-flight flag, the attempt
\* count, the socket handle and the transcript of the current session as
\* they are.
C21_StaleCallbacksInert ==
  [][\A s \in Slots :
       (lifecycle = "mounted" /\ StaleCallback(s)) =>
       /\ connState' = connState
       /\ connectingRef' = connectingRef
       /\ reconnectAttemptsRef' = reconnectAttemptsRef
       /\ wsRef' = wsRef
       /\ messages' = messages]_vars

\* A fetch of an activation that is over: its cleanup has run, it was
\* started for another property than the one shown, or the panel is gone
Superseded(f) == ~f.mounted \/ f.pid # propertyId \/ lifecycle = "unmounted"

\* C22: a history fetch that settles, with a result or a failure, after the
\* property has changed or the panel has unmounted leaves the transcript and
\* the error as they are.
C22_SupersededFetchDiscarded ==
  [][\A f \in fetches :
       (Superseded(f)
          /\ \/ FetchFailTraced(f)
             \/ \E hist \in Snapshots(f.pid) : FetchResolveTraced(f, hist)) =>
       (messages' = messages /\ error' = error)]_vars

\* C22 witness: the fetch of the property now shown settled first and seeded
\* the transcript, the fetch of the property shown before settled after it,
\* and the seed and the empty error are still there.
C22_Witness ==
  /\ lifecycle = "mounted" /\ Len(arrived) = 2
  /\ arrived[1].mounted /\ arrived[1].pid = propertyId
  /\ ~arrived[2].mounted /\ arrived[2].pid # propertyId
  /\ messages # <<>> /\ messages[1].property_id = propertyId /\ error = ""

\* The timers that are pending
Pending(ss) == {k \in Slots : ss[k].timer = "pending"}

\* C23: the error event of a socket sets the state of the mounted panel to
\* error and leaves the socket closing or closed, without counting an attempt
\* or setting a timer; the close event that follows it in the same task
\* closes the socket, sets the state of the mounted panel to disconnected,
\* counts exactly one attempt and sets exactly one timer, that of the socket.
C23_ErrorThenCloseCountsOnce ==
  [][\A s \in Slots :
       /\ (task = 0 /\ task' = s) =>
            /\ lifecycle = "mounted" => connState' = "error"
            /\ sockets'[s].phase \in {"closing", "closed"}
            /\ reconnectAttemptsRef' = reconnectAttemptsRef
            /\ Pending(sockets') = Pending(sockets)
       /\ task = s =>
            /\ task' = 0
            /\ lifecycle = "mounted" => connState' = "disconnected"
            /\ sockets'[s].phase = "closed"
            /\ reconnectAttemptsRef' = reconnectAttemptsRef + 1
            /\ Pending(sockets') = Pending(sockets) \cup {s}
            /\ s \notin Pending(sockets)]_vars

\* C23 witness: after an open, an error and the close that followed it, the
\* panel is disconnected with the transport error shown, one attempt counted
\* and one timer pending.
C23_Witness ==
  /\ lifecycle = "mounted" /\ task = 0
  /\ connState = "disconnected" /\ error = "WebSocket error"
  /\ reconnectAttemptsRef = 1
  /\ Cardinality(Pending(sockets)) = 1

\* C24: the attempt count changes only at the open of a socket, which sets
\* it to 0, and at the close of a socket, which adds exactly 1; every other
\* step (an error, a frame, a send, a fetch, a connect that is skipped or
\* not) leaves it as it is.
C24_CountChangesOnlyAtOpenAndClose ==
  [][/\ reconnectAttemptsRef' # reconnectAttemptsRef =>
          \/ reconnectAttemptsRef' = 0 /\ \E s \in Slots : Opened(s)
          \/ /\ reconnectAttemptsRef' = reconnectAttemptsRef + 1
             /\ \E s \in Slots : Closed(s)
     /\ \A s \in Slots : Opened(s) => reconnectAttemptsRef' = 0
     /\ \A s \in Slots : Closed(s) =>
          reconnectAttemptsRef' = reconnectAttemptsRef + 1]_vars

\* C24 witness: two closes counted with no open between them, the second
\* after a transport error, while the history was seeded and the timer of
\* the next connect is pending.
C24_Witness ==
  /\ lifecycle = "mounted"
  /\ reconnectAttemptsRef = 2
  /\ fetches = {} /\ messages # <<>>
  /\ error = "WebSocket error"
  /\ connState = "disconnected" /\ Pending(sockets) # {}

\* C25: a send that is rejected writes no frame, and a step that writes
\* frames writes exactly one, is the step of an accepted send that adds one
\* optimistic entry to the transcript, and the frame carries the trimmed text
\* of that entry; so the frames written never outnumber the optimistic
\* entries created, and no inbound event writes a frame.
C25_OneFramePerAcceptedSend ==
  /\ [](\A t \in Inputs : ~SendAccepted(Trim(t)) => SendWire(t) = <<>>)
  /\ [][wire' # <<>> =>
          /\ Len(wire') = 1
          /\ Sent
          /\ wire'[1].text = Last(messages').text
          /\ sockets' = sockets /\ connState' = connState
          /\ \E t \in Inputs :
               /\ SendAccepted(Trim(t))
               /\ wire'[1].text = Trim(t)
               /\ messages' = Append(messages, Optimistic(Trim(t)))]_vars

\* C25 witness: the frame of an accepted send was just written, its text that
\* of the optimistic entry at the end of a transcript that holds a live entry
\* too.
C25_Witness ==
  /\ Len(wire) = 1
  /\ Len(messages) >= 2
  /\ Last(messages).src = "opt"
  /\ wire[1].text = Last(messages).text
  /\ \E i \in 1..Len(messages) : messages[i].src = "live"

\* C26: whenever the state of the mounted panel is connected, the handle
\* holds a socket and that socket is open.
C26_ConnectedMeansOpenHandle ==
  (lifecycle = "mounted" /\ connState = "connected") =>
    (wsRef # 0 /\ sockets[wsRef].phase = "open")

\* C27: every frame a send writes goes to a socket that was connected for
\* the property the panel shows.
C27_FramesGoToCurrentResource ==
  \A i \in 1..Len(wire) : wire[i].pid = propertyId

\* C28: while the panel is mounted the single-flight flag is set exactly when
\* the handle holds a socket that is connecting.
C28_FlagIffHandleConnecting ==
  lifecycle = "mounted" =>
    (connectingRef <=> (wsRef # 0 /\ sockets[wsRef].phase = "connecting"))

\* C29: the session that a resource change activates starts with the attempt
\* count 0.
C29_CountStartsAtZeroPerSession ==
  [][(lifecycle = "mounted" /\ propertyId' # propertyId) =>
       reconnectAttemptsRef' = 0]_vars

\* The history fetch failed and its error is shown
HistoryFailed == lifecycle = "mounted" /\ error = "Failed to load messages"

\* C30: the failure of the history fetch of the current activation sets the
\* error and leaves the transcript, the connection state, the handle, the
\* flag, the attempt count, the sockets and their timers as they are; while
\* its error is shown a connecting socket can still open and a pending timer
\* can still fire; and a chat message delivered then, with an id the
\* transcript does not hold, is appended to the transcript.
C30_FetchFailureOnlySurfacesError ==
  /\ [](HistoryFailed =>
          \A s \in Slots :
            /\ (Idle /\ sockets[s].phase = "connecting") => ENABLED OnOpen(s)
            /\ (Idle /\ sockets[s].timer = "pending") => ENABLED TimerFire(s))
  /\ [][/\ \A f \in fetches :
             (f.mounted /\ FetchFailTraced(f)) =>
             /\ error' = "Failed to load messages"
             /\ messages' = messages
             /\ connState' = connState /\ wsRef' = wsRef
             /\ connectingRef' = connectingRef
             /\ reconnectAttemptsRef' = reconnectAttemptsRef
             /\ sockets' = sockets
        /\ \A s \in Slots : \A f \in LiveFrames(sockets[s].pid) :
             (HistoryFailed /\ f.id.value \notin Ids(messages)
                /\ OnMessageLogged(s, f)) =>
             messages' = Append(messages, LiveMsg(f))]_vars

\* C30 witness: the fetch failed on a connected panel and a chat message
\* delivered after it is the one entry of the transcript, the error of the
\* fetch still shown.
C30_Witness ==
  /\ HistoryFailed /\ connState = "connected"
  /\ Len(arrived) = 2
  /\ arrived[1] = [pid |-> propertyId, mounted |-> TRUE]
  /\ arrived[2] \in LiveFrames(propertyId)
  /\ messages = <<LiveMsg(arrived[2])>>

=============================================================================
